---- MODULE Spec2Model ----
(***************************************************************************)
(* Thermal Impedance Toolkit, React frontend.                              *)
(*                                                                         *)
(* The module models the client state held by DataProvider, FileUpload,    *)
(* the three tab components and their useApi hooks, the CSV ingestion of   *)
(* parseCsv, and the requests the client places with the Flask backend.    *)
(* The backend itself (app.py) is not part of the frontend sources: its    *)
(* answers are modelled from the written specification of fit_foster,      *)
(* foster_to_cauer and predict.                                            *)
(***************************************************************************)
EXTENDS Integers, Sequences, FiniteSets, Bags, TLC

(***************************************************************************)
(* JavaScript values.  Every value is a record [k, m, e, s]:               *)
(*   k = "num"    the finite decimal number m * 10^(-e)                    *)
(*   k = "nan"    NaN                                                      *)
(*   k = "inf"    Infinity (m = 1) or -Infinity (m = -1)                   *)
(*   k = "str"    the string whose characters are the sequence s           *)
(*   k = "bool"   true (m = 1) or false (m = 0)                            *)
(*   k = "null", k = "undef"                                               *)
(***************************************************************************)
Strip(m, e) ==
  LET RECURSIVE go(_, _)
      go(mm, ee) == IF ee > 0 /\ mm % 10 = 0 THEN go(mm \div 10, ee - 1)
                    ELSE [k |-> "num", m |-> mm, e |-> ee, s |-> <<>>]
  IN go(m, e)

Num(n) == [k |-> "num", m |-> n, e |-> 0, s |-> <<>>]

Dec(m, e) == Strip(m, e)

NaN == [k |-> "nan", m |-> 0, e |-> 0, s |-> <<>>]

Infinity == [k |-> "inf", m |-> 1, e |-> 0, s |-> <<>>]

NegInfinity == [k |-> "inf", m |-> -1, e |-> 0, s |-> <<>>]

Str(chars) == [k |-> "str", m |-> 0, e |-> 0, s |-> chars]

Bool(b) == [k |-> "bool", m |-> IF b THEN 1 ELSE 0, e |-> 0, s |-> <<>>]

JsNull == [k |-> "null", m |-> 0, e |-> 0, s |-> <<>>]

Undefined == [k |-> "undef", m |-> 0, e |-> 0, s |-> <<>>]

(* ToBoolean: what `!v` and `a || b` test. *)
Truthy(v) ==
  CASE v.k = "num"  -> v.m # 0
    [] v.k = "nan"  -> FALSE
    [] v.k = "inf"  -> TRUE
    [] v.k = "str"  -> v.s # <<>>
    [] v.k = "bool" -> v.m = 1
    [] OTHER        -> FALSE

(* a || b || ... : the first truthy operand, else the last operand. *)
RECURSIVE OrChain(_)
OrChain(vs) ==
  IF Len(vs) = 1 \/ Truthy(Head(vs)) THEN Head(vs) ELSE OrChain(Tail(vs))

DigitVal ==
  "0" :> 0 @@ "1" :> 1 @@ "2" :> 2 @@ "3" :> 3 @@ "4" :> 4 @@
  "5" :> 5 @@ "6" :> 6 @@ "7" :> 7 @@ "8" :> 8 @@ "9" :> 9

IsDigit(c) == c \in DOMAIN DigitVal

(* The number of consecutive digits of s from position i on. *)
RECURSIVE DigitRun(_, _)
DigitRun(s, i) ==
  IF i <= Len(s) /\ IsDigit(s[i]) THEN 1 + DigitRun(s, i + 1) ELSE 0

(* The natural number written by the digits s[i] .. s[i + n - 1]. *)
RECURSIVE DigitsValue(_, _, _)
DigitsValue(s, i, n) ==
  IF n = 0 THEN 0 ELSE 10 * DigitsValue(s, i, n - 1) + DigitVal[s[i + n - 1]]

Pow10(n) ==
  LET RECURSIVE p(_)
      p(i) == IF i = 0 THEN 1 ELSE 10 * p(i - 1)
  IN p(n)

(* The longest prefix of s that is a decimal literal, [+-]digits[.digits]  *)
(* with at least one digit: its length (0 when there is none) and value.   *)
DecimalPrefix(s) ==
  LET sl   == IF Len(s) > 0 /\ s[1] \in {"-", "+"} THEN 1 ELSE 0
      il   == DigitRun(s, sl + 1)
      dot  == sl + il + 1 <= Len(s) /\ s[sl + il + 1] = "."
      fl   == IF dot THEN DigitRun(s, sl + il + 2) ELSE 0
      ok   == il + fl >= 1
      sign == IF sl = 1 /\ s[1] = "-" THEN -1 ELSE 1
      mant == DigitsValue(s, sl + 1, il) * Pow10(fl) + DigitsValue(s, sl + il + 2, fl)
  IN [len |-> IF ok THEN sl + il + (IF dot THEN 1 + fl ELSE 0) ELSE 0,
      val |-> IF ok THEN Strip(sign * mant, fl) ELSE NaN]

InfinityText == <<"I", "n", "f", "i", "n", "i", "t", "y">>

(* The length (0 when there is none) and value of a prefix [+-]Infinity.   *)
InfinityPrefix(s) ==
  LET sl == IF Len(s) > 0 /\ s[1] \in {"-", "+"} THEN 1 ELSE 0
      ok == Len(s) >= sl + 8 /\ SubSeq(s, sl + 1, sl + 8) = InfinityText
  IN [len |-> IF ok THEN sl + 8 ELSE 0,
      val |-> IF ~ok THEN NaN ELSE IF sl = 1 /\ s[1] = "-" THEN NegInfinity ELSE Infinity]

(* Number(v): the strings of the model hold no white space, exponent or    *)
(* radix prefix.                                                           *)
Number(v) ==
  CASE v.k = "str"   -> IF v.s = <<>> THEN Num(0)
                        ELSE IF DecimalPrefix(v.s).len = Len(v.s)
                             THEN DecimalPrefix(v.s).val
                        ELSE IF InfinityPrefix(v.s).len = Len(v.s)
                             THEN InfinityPrefix(v.s).val ELSE NaN
    [] v.k = "null"  -> Num(0)
    [] v.k = "undef" -> NaN
    [] v.k = "bool"  -> Num(v.m)
    [] OTHER         -> v

(* parseFloat(v), v a string: the value of the longest numeric prefix. *)
parseFloat(v) ==
  IF v.k # "str" THEN Number(v)
  ELSE IF DecimalPrefix(v.s).len > 0 THEN DecimalPrefix(v.s).val
  ELSE InfinityPrefix(v.s).val

isNaN(v) == Number(v).k = "nan"

(* a < b on numbers; every comparison with NaN is false. *)
Less(a, b) ==
  CASE a.k = "nan" \/ b.k = "nan" -> FALSE
    [] a.k = "inf" /\ b.k = "inf" -> a.m < b.m
    [] a.k = "inf"                -> a.m < 0
    [] b.k = "inf"                -> b.m > 0
    [] OTHER                      -> a.m * Pow10(b.e) < b.m * Pow10(a.e)

Gt0(v) == Less(Num(0), v)

Le0(v) == v.k # "nan" /\ ~Gt0(v)

IsInteger(v) == v.k = "num" /\ v.e = 0

(***************************************************************************)
(* Option values: JavaScript's null is None, a held value x is Some(x).    *)
(***************************************************************************)
None == <<>>

Some(x) == <<x>>

(***************************************************************************)
(* CSV ingestion (useCsvParser).  Papa.parse, with header: true and        *)
(* dynamicTyping: true, hands `complete` one object per data row: a        *)
(* function from the header's column names to typed cells.                 *)
(***************************************************************************)

(* row.name: undefined when the row has no such column. *)
Field(row, name) == IF name \in DOMAIN row THEN row[name] ELSE Undefined

ColumnsMsg == "CSV must contain columns named \"tp\" (or \"t\") and \"Zth\" (or \"Z\")"

NoValidMsg == "No valid data points found in CSV"

RowTp(row) ==
  OrChain(<<Field(row, "tp"), Field(row, "t"), Field(row, "time"),
            Field(row, "Time"), Field(row, "TP"), Field(row, "T")>>)

RowZth(row) ==
  OrChain(<<Field(row, "Zth"), Field(row, "Z"), Field(row, "ZTH"), Field(row, "z")>>)

(* The map callback throws on a row whose tp or Zth is undefined. *)
RowThrows(row) == RowTp(row) = Undefined \/ RowZth(row) = Undefined

RowPoint(row) == [tp |-> Number(RowTp(row)), Zth |-> Number(RowZth(row))]

(* KeepPoint without the test of the time's sign. *)
KeepPointAnyTime(p) == ~isNaN(p.tp) /\ ~isNaN(p.Zth)

(* The filter's predicate. *)
KeepPoint(p) == ~isNaN(p.tp) /\ ~isNaN(p.Zth) /\ Gt0(p.tp)

FilterPoints(ps) == SelectSeq(ps, KeepPoint)

(* points.sort((a, b) => a.tp - b.tp): a stable sort, ascending by tp.     *)
(* ps[j] comes before ps[k] when its tp is smaller, or equal and j < k.    *)
ComesBefore(ps, j, k) ==
  Less(ps[j].tp, ps[k].tp) \/ (~Less(ps[k].tp, ps[j].tp) /\ j < k)

(* SortByTp with the sort left out. *)
SortByTpLeftOut(ps) == ps

(* The position of ps[k] in the sorted array. *)
SortedIndex(ps, k) == 1 + Cardinality({j \in 1..Len(ps) : ComesBefore(ps, j, k)})

SortByTp(ps) ==
  [i \in 1..Len(ps) |-> ps[CHOOSE k \in 1..Len(ps) : SortedIndex(ps, k) = i]]

Resolved(points) == [ok |-> TRUE, points |-> points, msg |-> ""]

Rejected(msg) == [ok |-> FALSE, points |-> <<>>, msg |-> msg]

(* parseCsv with the test of points.length left out. *)
parseCsvAnyLength(data) ==
  IF \E i \in 1..Len(data) : RowThrows(data[i]) THEN Rejected(ColumnsMsg)
  ELSE Resolved(SortByTp(FilterPoints([i \in 1..Len(data) |-> RowPoint(data[i])])))

(* The `complete` callback of parseCsv on the rows Papa delivers. *)
parseCsv(data) ==
  IF \E i \in 1..Len(data) : RowThrows(data[i]) THEN Rejected(ColumnsMsg)
  ELSE LET points == FilterPoints([i \in 1..Len(data) |-> RowPoint(data[i])])
       IN IF Len(points) = 0 THEN Rejected(NoValidMsg)
          ELSE Resolved(SortByTp(points))


(***************************************************************************)
(* Bounds of the model.                                                    *)
(***************************************************************************)
MaxRows == 2          \* data rows of a generated CSV file

MaxParses == 1        \* CSV parses in flight at a time

MaxInFlight == 2      \* HTTP requests in flight at a time

MaxUploads == 2       \* CSV parses in flight at a time, FileUpload alone

(***************************************************************************)
(* Inputs.                                                                 *)
(***************************************************************************)
Row(tcol, zcol, t, z) == (tcol :> t) @@ (zcol :> z)

(* Files the user can pick in the upload control. *)
FileThree ==
  [name |-> "three.csv",
   data |-> <<Row("tp", "Zth", Num(2), Num(6)), Row("tp", "Zth", Num(1), Num(5)),
              Row("tp", "Zth", Num(3), Num(7))>>]

FileTwo ==
  [name |-> "two.csv",
   data |-> <<Row("t", "Z", Num(1), Num(5)), Row("t", "Z", Num(2), Num(6))>>]

FileBad ==
  [name |-> "bad.csv",
   data |-> <<Row("x", "y", Num(1), Num(5))>>]

(* A file with the columns, none of whose rows passes the filter. *)
FileNoValid ==
  [name |-> "novalid.csv",
   data |-> <<Row("tp", "Zth", Num(-1), Num(5)), Row("tp", "Zth", Str(<<"x">>), Num(6))>>]

(* A file with two rows of the same time. *)
FileTwice ==
  [name |-> "twice.csv",
   data |-> <<Row("tp", "Zth", Num(1), Num(5)), Row("tp", "Zth", Num(1), Num(6)),
              Row("tp", "Zth", Num(2), Num(7))>>]

Files == {FileThree, FileTwo}

(* Files picked one after the other in the upload control. *)
UploadFiles == {FileThree, FileTwo, FileBad, FileNoValid}

(* Files picked in the prediction workflow. *)
CtxFiles == {FileTwo, FileBad}

(* Texts the number input "Order N" can hold (e.target.value). *)
OrderTexts == {<<"2">>, <<"1", "1">>}

(* Values handed to the context setters of the prediction inputs. *)
RefAreaTexts == {<<"0">>}

NewAreaTexts == {<<"2">>, <<"-", "1">>}

(* Inputs of the numeric core.  The solver's last iterate is any sequence  *)
(* of N pairs of these values, here the ones running through RawValues     *)
(* from two starting places.                                               *)
CorePoints == parseCsv(FileThree.data).points

CoreOrders == 0..11

RawValues == <<Num(1), Num(-1), Num(2), Num(0), NaN>>

Seeds == 0..(Len(RawValues) - 1)

Iterate(N, seedR, seedTau) ==
  [i \in 1..N |->
     [R   |-> RawValues[((seedR + i) % Len(RawValues)) + 1],
      tau |-> RawValues[((seedTau + 2 * i) % Len(RawValues)) + 1]]]

FitCalls ==
  {[op |-> "fit", body |-> [points |-> points, N |-> Num(N)],
    iterate |-> Iterate(N, seedR, seedTau)] :
     points \in {CorePoints, SubSeq(CorePoints, 1, 2)}, N \in CoreOrders,
     seedR \in Seeds, seedTau \in Seeds}

(* The order of the fit inside predict. *)
DefaultOrder == 4

CoreAreas == {Num(0), Num(1), Num(4)}

ScalingSpecs ==
  {[mode |-> "fixed", gammaFixed |-> Num(1)],
   [mode |-> "fixed", gammaFixed |-> Dec(5, 1)],
   [mode |-> "blended", gammaFixed |-> Num(1)]}

PredictCalls ==
  {[op |-> "predict", body |-> [points |-> points, Aref |-> Aref, Anew |-> Anew],
    scalingSpec |-> scalingSpec, iterate |-> Iterate(DefaultOrder, seedR, seedTau)] :
     points \in {CorePoints, SubSeq(CorePoints, 1, 2)},
     Aref \in CoreAreas, Anew \in CoreAreas, scalingSpec \in ScalingSpecs,
     seedR \in Seeds, seedTau \in Seeds}

FosterAreaTexts == {<<"1">>, <<"4">>}

GammaModes == {"fixed"}

GammaFixedTexts == {<<"0", ".", "5">>}

Tabs == {"fit", "cauer", "predict"}

(* Generated CSV files, parsed by parseCsv alone. *)
TimeColumns == {"tp", "T", "Tp"}

ZColumns == {"Zth", "z"}

TimeCells == {Num(1), Num(2), Num(0), Num(-1), Str(<<"x">>), Str(InfinityText), JsNull}

ZCells == {Num(5), Num(0), Num(-5), Str(<<"x">>)}

(* The files of n data rows under the header tc, zc. *)
CsvInputs(tc, zc, n) ==
  [1..n -> {Row(tc, zc, t, z) : t \in TimeCells, z \in ZCells}]

(***************************************************************************)
(* State.                                                                  *)
(***************************************************************************)
VARIABLES
  uploadedPoints,   \* DataProvider: None or the parsed points
  fosterResult,     \* DataProvider: None or a fit_foster response
  cauerResult,      \* DataProvider: None or a foster_to_cauer response
  predictResult,    \* DataProvider: None or a predict response
  activeTab,        \* DataProvider
  orderN,           \* DataProvider: a JavaScript value
  refArea,          \* DataProvider
  newArea,          \* DataProvider
  gammaMode,        \* DataProvider
  gammaFixed,       \* DataProvider
  fileName,         \* FileUpload
  uploadError,      \* FileUpload's error: None or a message
  loading,          \* useApi of the mounted tab
  error,            \* useApi of the mounted tab: None or a message
  localError,       \* the mounted tab: None or a message
  parses,           \* parseCsv promises not yet settled: a bag of files
  requests,         \* axios.post promises not yet settled: a bag of requests
  audit,            \* whether the history field `rival` of requests is kept
  csvData,          \* the rows of a generated CSV file
  csvResult,        \* None, or how parseCsv settled on csvData
  coreCall,         \* None, or a call of the numeric core
  coreResult        \* None, or what the call returned

ctxVars ==
  <<uploadedPoints, fosterResult, cauerResult, predictResult, activeTab, orderN,
    refArea, newArea, gammaMode, gammaFixed>>

tabVars == <<loading, error, localError>>

csvVars == <<audit, csvData, csvResult>>

coreVars == <<coreCall, coreResult>>

vars ==
  <<uploadedPoints, fosterResult, cauerResult, predictResult, activeTab, orderN,
    refArea, newArea, gammaMode, gammaFixed, fileName, uploadError, loading,
    error, localError, parses, requests, audit, csvData, csvResult,
    coreCall, coreResult>>

InitUi ==
  /\ uploadedPoints = None
  /\ fosterResult = None
  /\ cauerResult = None
  /\ predictResult = None
  /\ activeTab = "fit"
  /\ orderN = Num(4)
  /\ refArea = Num(1)
  /\ newArea = Str(<<>>)
  /\ gammaMode = "blended"
  /\ gammaFixed = Dec(8, 1)
  /\ fileName = ""
  /\ uploadError = None
  /\ loading = FALSE
  /\ error = None
  /\ localError = None
  /\ parses = EmptyBag
  /\ requests = EmptyBag

NoCore == coreCall = None /\ coreResult = None

Init ==
  /\ InitUi
  /\ audit = FALSE
  /\ csvData = <<>>
  /\ csvResult = None
  /\ NoCore


(***************************************************************************)
(* The backend's answers, from the written specification of the three      *)
(* operations.  A request that violates a stated precondition is answered  *)
(* with a ValidationError; any request can fail in transport.              *)
(***************************************************************************)
ValidFit(body) ==
  /\ Len(body.points) >= 3
  /\ IsInteger(body.N) /\ body.N.m >= 1 /\ body.N.m <= 10

(* Arithmetic of the core, on finite decimals; a quotient is cut after six *)
(* decimals, and anything computed from a non-finite number is NaN.        *)
Times(a, b) ==
  IF a.k # "num" \/ b.k # "num" THEN NaN ELSE Dec(a.m * b.m, a.e + b.e)

Plus(a, b) ==
  IF a.k # "num" \/ b.k # "num" THEN NaN
  ELSE LET e == IF a.e > b.e THEN a.e ELSE b.e
       IN Dec(a.m * Pow10(e - a.e) + b.m * Pow10(e - b.e), e)

Over(a, b) ==
  IF a.k # "num" \/ b.k # "num" \/ b.m = 0 THEN NaN
  ELSE LET Abs(x) == IF x < 0 THEN -x ELSE x
           sign == IF (a.m < 0) = (b.m < 0) THEN 1 ELSE -1
           e == IF a.e < b.e THEN a.e ELSE b.e
           n == Abs(a.m) * Pow10(b.e - e)
           d == Abs(b.m) * Pow10(a.e - e)
           RECURSIVE go(_, _, _)
           go(q, r, k) == IF r = 0 \/ k = 6 THEN Dec(sign * q, k)
                          ELSE go(10 * q + (10 * r) \div d, (10 * r) % d, k + 1)
       IN go(n \div d, n % d, 0)

RECURSIVE Sum(_)
Sum(vs) == IF vs = <<>> THEN Num(0) ELSE Plus(Head(vs), Sum(Tail(vs)))

(* The small positive floor of the clip. *)
Epsilon == Dec(1, 3)

ClippedMsg == "non-physical parameters clipped"

(* The clip left out: the solver's value is returned as it is. *)
ClipKept(v) == v

(* Post-fit clip of one parameter: a value that is not finite and strictly *)
(* positive becomes Epsilon.                                               *)
Clip(v) == IF v.k = "num" /\ Gt0(v) THEN v ELSE Epsilon

(* The FosterNetwork the fitter returns for the solver's last iterate, a   *)
(* sequence of N pairs [R, tau]: R and tau clipped, C = tau / R.           *)
FosterNetwork(iterate) ==
  [i \in 1..Len(iterate) |->
     LET R == Clip(iterate[i].R)
         tau == Clip(iterate[i].tau)
     IN [R |-> R, C |-> Over(tau, R), tau |-> tau]]

Clipped(iterate) ==
  \E i \in 1..Len(iterate) :
    ~(iterate[i].R.k = "num" /\ Gt0(iterate[i].R)) \/
    ~(iterate[i].tau.k = "num" /\ Gt0(iterate[i].tau))

(* ResponseSimulator: the value of the network's step response at time t,  *)
(* Sum R_i (1 - e^(-t / tau_i)), held as its expression.                   *)
StepResponse(network, t) ==
  [k |-> "sum", t |-> t,
   terms |-> [i \in 1..Len(network) |-> <<network[i].R, network[i].tau>>]]

evaluate(network, points) ==
  [j \in 1..Len(points) |->
     [tp |-> points[j].tp, Zth |-> StepResponse(network, points[j].tp)]]

(* fit_foster on a valid body, the solver having stopped at `iterate`. *)
FitResult(body, iterate) ==
  LET network == FosterNetwork(iterate)
  IN [R         |-> [i \in 1..Len(network) |-> network[i].R],
      C         |-> [i \in 1..Len(network) |-> network[i].C],
      tau       |-> [i \in 1..Len(network) |-> network[i].tau],
      fitSeries |-> evaluate(network, body.points),
      rms_error |-> Num(0),
      dc_error  |-> Num(0),
      warning   |-> IF Clipped(iterate) THEN Some(ClippedMsg) ELSE None]

(* The iterate the solver stops at in the application's runs: N physical   *)
(* stages.                                                                 *)
SolverIterate(N) == [i \in 1..N |-> [R |-> Num(i), tau |-> Num(i)]]

FitResponse(body) == FitResult(body, SolverIterate(body.N.m))

ValidCauer(body) == Len(body.R) >= 1 /\ Len(body.C) = Len(body.R)

CauerResponse(body) ==
  [R_cauer |-> body.R, C_cauer |-> body.C, series |-> body.series]

ValidPredict(body) ==
  /\ body.Aref.k = "num" /\ Gt0(body.Aref)
  /\ body.Anew.k = "num" /\ Gt0(body.Anew)

(* The square root of a decimal that is the square of a decimal. *)
Sqrt(x) ==
  IF x.k = "num" /\ x.e % 2 = 0 /\ \E r \in 0..x.m : r * r = x.m
  THEN Dec(CHOOSE r \in 0..x.m : r * r = x.m, x.e \div 2)
  ELSE NaN

(* x ^ gamma taken as x * gamma. *)
PowerAsProduct(x, gamma) == Times(x, gamma)

(* x ^ gamma, for the exponents 0, 1/2 and 1. *)
Power(x, gamma) ==
  CASE gamma = Num(0)    -> Num(1)
    [] gamma = Dec(5, 1) -> Sqrt(x)
    [] gamma = Num(1)    -> x

(* The characteristic diffusion time of the blended mode. *)
DiffusionTime == Num(1)

(* gamma_i of a stage.  blended: a ramp falling with tau, from 1 below the *)
(* diffusion time to 0 above it.                                           *)
Gamma(scalingSpec, tau) ==
  IF scalingSpec.mode = "fixed" THEN scalingSpec.gammaFixed
  ELSE IF Less(tau, DiffusionTime) THEN Num(1)
  ELSE IF tau = DiffusionTime THEN Dec(5, 1)
  ELSE Num(0)

(* R_new = R (Aref/Anew)^gamma, C_new = C (Anew/Aref)^gamma, a new network. *)
ScaledNetwork(network, Aref, Anew, scalingSpec) ==
  [i \in 1..Len(network) |->
     LET gamma == Gamma(scalingSpec, network[i].tau)
         R == Times(network[i].R, Power(Over(Aref, Anew), gamma))
         C == Times(network[i].C, Power(Over(Anew, Aref), gamma))
     IN [R |-> R, C |-> C, tau |-> Times(R, C)]]

FallbackMsg == "used fallback pure-inverse-area scaling"

(* predict on a valid body.  The dataset is fitted first (the solver       *)
(* stopping at `iterate`); a dataset the fitter cannot take is scaled by   *)
(* Aref/Anew as it is.                                                     *)
PredictResult(body, scalingSpec, iterate) ==
  IF Len(body.points) >= 3
  THEN LET network == FosterNetwork(iterate)
           scaled == ScaledNetwork(network, body.Aref, body.Anew, scalingSpec)
       IN [series  |-> evaluate(scaled, body.points),
           scale   |-> Over(Sum([i \in 1..Len(scaled) |-> scaled[i].R]),
                            Sum([i \in 1..Len(network) |-> network[i].R])),
           summary |-> "predicted",
           warning |-> None]
  ELSE LET ratio == Over(body.Aref, body.Anew)
       IN [series  |-> [j \in 1..Len(body.points) |->
                          [tp |-> body.points[j].tp,
                           Zth |-> Times(body.points[j].Zth, ratio)]],
           scale   |-> ratio,
           summary |-> "predicted",
           warning |-> Some(FallbackMsg)]

(* The scaling the server takes when the request names none. *)
DefaultScaling == [mode |-> "blended", gammaFixed |-> Num(1)]

PredictResponse(body) ==
  PredictResult(body, DefaultScaling, SolverIterate(DefaultOrder))

ValidRequest(r) ==
  CASE r.kind = "fit"     -> ValidFit(r.body)
    [] r.kind = "cauer"   -> ValidCauer(r.body)
    [] r.kind = "predict" -> ValidPredict(r.body)

ResponseData(r) ==
  CASE r.kind = "fit"     -> FitResponse(r.body)
    [] r.kind = "cauer"   -> CauerResponse(r.body)
    [] r.kind = "predict" -> PredictResponse(r.body)

(* What a call of the core returns: its result, or the ValidationError. *)
CoreResult(call) ==
  CASE call.op = "fit" /\ ValidFit(call.body) ->
         [ok |-> TRUE, data |-> FitResult(call.body, call.iterate)]
    [] call.op = "predict" /\ ValidPredict(call.body) ->
         [ok |-> TRUE,
          data |-> PredictResult(call.body, call.scalingSpec, call.iterate)]
    [] OTHER -> [ok |-> FALSE, error |-> "ValidationError"]

(* What axios rejects with: the server's error text ("" when the failure   *)
(* carries no response body) and the transport message.                    *)
ValidationFailure ==
  [serverError |-> "ValidationError", message |-> "Request failed with status code 400"]

TransportFailure == [serverError |-> "", message |-> "Network Error"]

Failures(r) ==
  {TransportFailure} \cup (IF ValidRequest(r) THEN {} ELSE {ValidationFailure})

(***************************************************************************)
(* useApi: the request bodies and the error text.                          *)
(***************************************************************************)

(* err.response?.data?.error || err.message *)
errorMsg(err) == IF err.serverError # "" THEN err.serverError ELSE err.message

fitFosterBody(points, N) == [points |-> points, N |-> Number(N)]

(* fosterToCauerBody with R and C exchanged. *)
fosterToCauerBodySwapped(R, C, series) == [R |-> C, C |-> R, series |-> series]

fosterToCauerBody(R, C, series) == [R |-> R, C |-> C, series |-> series]

predictBody(points, Aref, Anew) ==
  [points |-> points, Aref |-> Number(Aref), Anew |-> Number(Anew)]

(* A request as it leaves the mounted tab.  live: the component instance   *)
(* that issued it is still mounted.  rival (history): the result slot of   *)
(* this kind holds the outcome of a request that was in flight together    *)
(* with this one.                                                          *)
NewRequest(kind, body) == [kind |-> kind, body |-> body, live |-> TRUE, rival |-> FALSE]

(* Post with setLoading(true) left out. *)
PostNotLoading(kind, body) ==
  /\ BagCardinality(requests) < MaxInFlight
  /\ loading' = loading
  /\ error' = None
  /\ requests' = requests (+) SetToBag({NewRequest(kind, body)})

(* setLoading(true); setError(null); axios.post(...) *)
Post(kind, body) ==
  /\ BagCardinality(requests) < MaxInFlight
  /\ loading' = TRUE
  /\ error' = None
  /\ requests' = requests (+) SetToBag({NewRequest(kind, body)})

(* The bag B with every element x replaced by F(x). *)
MapBag(B, F(_)) ==
  LET RECURSIVE go(_)
      go(S) == IF S = {} THEN EmptyBag
               ELSE LET x == CHOOSE y \in S : TRUE
                    IN [z \in {F(x)} |-> B[x]] (+) go(S \ {x})
  IN go(DOMAIN B)

Unrivalled(r) == [r EXCEPT !.rival = FALSE]

Orphaned(r) == [r EXCEPT !.live = FALSE]

(***************************************************************************)
(* FileUpload.                                                             *)
(***************************************************************************)
ReadErrorMsg == "File could not be read"

(* handleFileChange with setCauerResult(null) and setPredictResult(null)   *)
(* left out.                                                               *)
handleFileChangeFosterOnly(file, maxParses) ==
  /\ BagCardinality(parses) < maxParses
  /\ fileName' = file.name
  /\ uploadError' = None
  /\ fosterResult' = None
  /\ parses' = parses (+) SetToBag({file})
  /\ requests' = MapBag(requests, Unrivalled)
  /\ UNCHANGED <<uploadedPoints, cauerResult, predictResult, activeTab, orderN,
                 refArea, newArea, gammaMode, gammaFixed, loading, error,
                 localError, csvVars, coreVars>>

handleFileChangeUpTo(file, maxParses) ==
  /\ BagCardinality(parses) < maxParses
  /\ fileName' = file.name
  /\ uploadError' = None
  /\ fosterResult' = None
  /\ cauerResult' = None
  /\ predictResult' = None
  /\ parses' = parses (+) SetToBag({file})
  /\ requests' = MapBag(requests, Unrivalled)
  /\ UNCHANGED <<uploadedPoints, activeTab, orderN, refArea, newArea, gammaMode,
                 gammaFixed, loading, error, localError, csvVars, coreVars>>

handleFileChange(file) == handleFileChangeUpTo(file, MaxParses)

(* e.target.files[0] is undefined: the dialog was cancelled. *)
handleFileChangeNoFile == UNCHANGED vars

(* The promise of parseCsv settles: Papa's complete callback, or (readOk   *)
(* false) its error callback. *)
ParseSettles(file, readOk) ==
  \E out \in {IF readOk THEN parseCsv(file.data) ELSE Rejected(ReadErrorMsg)} :
     /\ parses' = parses (-) SetToBag({file})
     /\ uploadedPoints' = IF out.ok THEN Some(out.points) ELSE None
     /\ uploadError' = IF out.ok THEN None ELSE Some(out.msg)
     /\ UNCHANGED <<fosterResult, cauerResult, predictResult, activeTab, orderN,
                    refArea, newArea, gammaMode, gammaFixed, fileName, loading,
                    error, localError, requests, csvVars, coreVars>>

(***************************************************************************)
(* Sidebar and the tab bar.                                                *)
(***************************************************************************)
setOrderN(text) ==
  /\ orderN' = Str(text)
  /\ UNCHANGED <<uploadedPoints, fosterResult, cauerResult, predictResult, activeTab,
                 refArea, newArea, gammaMode, gammaFixed, fileName, uploadError,
                 loading, error, localError, parses, requests, csvVars, coreVars>>

(* setActiveTab also dropping the Foster result. *)
setActiveTabDropsFoster(tab) ==
  IF tab = activeTab THEN UNCHANGED vars
  ELSE /\ activeTab' = tab
       /\ fosterResult' = None
       /\ loading' = FALSE
       /\ error' = None
       /\ localError' = None
       /\ requests' = MapBag(requests, Orphaned)
       /\ UNCHANGED <<uploadedPoints, cauerResult, predictResult, orderN,
                      refArea, newArea, gammaMode, gammaFixed, fileName, uploadError,
                      parses, csvVars, coreVars>>

(* Another tab: the mounted tab component is unmounted (its useApi state   *)
(* and localError are gone, its pending promises keep running) and the     *)
(* new one mounts with fresh state.  The same tab: no state change.        *)
setActiveTab(tab) ==
  IF tab = activeTab THEN UNCHANGED vars
  ELSE /\ activeTab' = tab
       /\ loading' = FALSE
       /\ error' = None
       /\ localError' = None
       /\ requests' = MapBag(requests, Orphaned)
       /\ UNCHANGED <<uploadedPoints, fosterResult, cauerResult, predictResult, orderN,
                      refArea, newArea, gammaMode, gammaFixed, fileName, uploadError,
                      parses, csvVars, coreVars>>


(***************************************************************************)
(* FitFosterTab.                                                           *)
(***************************************************************************)
FitShortMsg == "Please upload a CSV file with at least 3 data points"

(* disabled={loading || !uploadedPoints} *)
FitDisabled == loading \/ uploadedPoints = None

(* handleFit with the length test off by one. *)
handleFitTwoPoints ==
  IF uploadedPoints = None \/ Len(uploadedPoints[1]) < 2
  THEN /\ localError' = Some(FitShortMsg)
       /\ UNCHANGED <<ctxVars, fileName, uploadError, loading, error, parses,
                      requests, csvVars, coreVars>>
  ELSE /\ localError' = None
       /\ Post("fit", fitFosterBody(uploadedPoints[1], orderN))
       /\ UNCHANGED <<ctxVars, fileName, uploadError, parses, csvVars, coreVars>>

handleFit ==
  IF uploadedPoints = None \/ Len(uploadedPoints[1]) < 3
  THEN /\ localError' = Some(FitShortMsg)
       /\ UNCHANGED <<ctxVars, fileName, uploadError, loading, error, parses,
                      requests, csvVars, coreVars>>
  ELSE /\ localError' = None
       /\ Post("fit", fitFosterBody(uploadedPoints[1], orderN))
       /\ UNCHANGED <<ctxVars, fileName, uploadError, parses, csvVars, coreVars>>

(* A click on "Fit Foster": a disabled button dispatches no event. *)
ClickFit ==
  /\ activeTab = "fit"
  /\ IF FitDisabled THEN UNCHANGED vars ELSE handleFit

(***************************************************************************)
(* FosterToCauerTab.                                                       *)
(***************************************************************************)
ConvertFirstMsg == "Please fit Foster model first"

(* disabled={loading || !fosterResult} *)
ConvertDisabled == loading \/ fosterResult = None

(* !fosterResult || !fosterResult.R || !fosterResult.C: an array is truthy. *)
NoFoster ==
  \/ fosterResult = None
  \/ "R" \notin DOMAIN fosterResult[1]
  \/ "C" \notin DOMAIN fosterResult[1]

handleConvert ==
  IF NoFoster
  THEN /\ localError' = Some(ConvertFirstMsg)
       /\ UNCHANGED <<ctxVars, fileName, uploadError, loading, error, parses,
                      requests, csvVars, coreVars>>
  ELSE /\ localError' = None
       /\ Post("cauer", fosterToCauerBody(fosterResult[1].R, fosterResult[1].C,
                                          fosterResult[1].fitSeries))
       /\ UNCHANGED <<ctxVars, fileName, uploadError, parses, csvVars, coreVars>>

ClickConvert ==
  /\ activeTab = "cauer"
  /\ IF ConvertDisabled THEN UNCHANGED vars ELSE handleConvert

(***************************************************************************)
(* PredictSiblingTab.                                                      *)
(***************************************************************************)
UploadFirstMsg == "Please upload a CSV file first"

NewAreaMsg == "Please enter a valid New Die Area"

(* disabled={loading || !uploadedPoints || !newArea} *)
PredictDisabled == loading \/ uploadedPoints = None \/ ~Truthy(newArea)

(* !newArea || parseFloat(newArea) <= 0 *)
BadNewArea == ~Truthy(newArea) \/ Le0(parseFloat(newArea))

handlePredict ==
  IF uploadedPoints = None \/ Len(uploadedPoints[1]) = 0
  THEN /\ localError' = Some(UploadFirstMsg)
       /\ UNCHANGED <<ctxVars, fileName, uploadError, loading, error, parses,
                      requests, csvVars, coreVars>>
  ELSE IF BadNewArea
  THEN /\ localError' = Some(NewAreaMsg)
       /\ UNCHANGED <<ctxVars, fileName, uploadError, loading, error, parses,
                      requests, csvVars, coreVars>>
  ELSE /\ localError' = None
       /\ Post("predict", predictBody(uploadedPoints[1], refArea, newArea))
       /\ UNCHANGED <<ctxVars, fileName, uploadError, parses, csvVars, coreVars>>

ClickPredict ==
  /\ activeTab = "predict"
  /\ IF PredictDisabled THEN UNCHANGED vars ELSE handlePredict

(***************************************************************************)
(* A request settles: the rest of fitFoster / fosterToCauer / predict and  *)
(* of the handler that awaits it.  State setters of an unmounted component *)
(* do nothing; the setters of DataProvider always act.                     *)
(***************************************************************************)
MarkRivals(B, kind) ==
  LET Mark(q) == IF audit /\ q.kind = kind THEN [q EXCEPT !.rival = TRUE] ELSE q
  IN MapBag(B, Mark)

(* Every handler storing its result with setFosterResult. *)
ResultSetterFosterOnly(kind) == "setFosterResult"

(* The context setter the handler of a request hands its result to:        *)
(* handleFit, handleConvert, handlePredict.                                *)
ResultSetter(kind) ==
  CASE kind = "fit"     -> "setFosterResult"
    [] kind = "cauer"   -> "setCauerResult"
    [] kind = "predict" -> "setPredictResult"

(* setLoading(false); return response.data; then set<Kind>Result(result) *)
SettleOk(r) ==
  LET data == Some(ResponseData(r))
      set == ResultSetter(r.kind)
  IN /\ ValidRequest(r)
     /\ requests' = MarkRivals(requests (-) SetToBag({r}), r.kind)
     /\ loading' = IF r.live THEN FALSE ELSE loading
     /\ fosterResult' = IF set = "setFosterResult" THEN data ELSE fosterResult
     /\ cauerResult' = IF set = "setCauerResult" THEN data ELSE cauerResult
     /\ predictResult' = IF set = "setPredictResult" THEN data ELSE predictResult
     /\ UNCHANGED <<uploadedPoints, activeTab, orderN, refArea, newArea, gammaMode,
                    gammaFixed, fileName, uploadError, error, localError, parses,
                    csvVars, coreVars>>

(* setError(errorMsg); setLoading(false); throw; then setLocalError(err.message) *)
SettleFail(r, err) ==
     /\ err \in Failures(r)
     /\ requests' = requests (-) SetToBag({r})
     /\ error' = IF r.live THEN Some(errorMsg(err)) ELSE error
     /\ loading' = IF r.live THEN FALSE ELSE loading
     /\ localError' = IF r.live THEN Some(errorMsg(err)) ELSE localError
     /\ UNCHANGED <<ctxVars, fileName, uploadError, parses, csvVars, coreVars>>

(***************************************************************************)
(* The setters DataProvider hands to its consumers for the prediction      *)
(* inputs.                                                                 *)
(***************************************************************************)
setRefArea(text) ==
  /\ refArea' = Str(text)
  /\ UNCHANGED <<uploadedPoints, fosterResult, cauerResult, predictResult, activeTab,
                 orderN, newArea, gammaMode, gammaFixed, fileName, uploadError,
                 tabVars, parses, requests, csvVars, coreVars>>

setNewArea(text) ==
  /\ newArea' = Str(text)
  /\ UNCHANGED <<uploadedPoints, fosterResult, cauerResult, predictResult, activeTab,
                 orderN, refArea, gammaMode, gammaFixed, fileName, uploadError,
                 tabVars, parses, requests, csvVars, coreVars>>

setGammaMode(mode) ==
  /\ gammaMode' = mode
  /\ UNCHANGED <<uploadedPoints, fosterResult, cauerResult, predictResult, activeTab,
                 orderN, refArea, newArea, gammaFixed, fileName, uploadError,
                 tabVars, parses, requests, csvVars, coreVars>>

setGammaFixed(text) ==
  /\ gammaFixed' = Str(text)
  /\ UNCHANGED <<uploadedPoints, fosterResult, cauerResult, predictResult, activeTab,
                 orderN, refArea, newArea, gammaMode, fileName, uploadError,
                 tabVars, parses, requests, csvVars, coreVars>>

(***************************************************************************)
(* Rendering: the chart data of the mounted tab.  The objects of           *)
(* uploadedPoints live at the addresses 1..n of a heap; the render builds  *)
(* a Map from tp to row objects, writes the second curve into the rows,    *)
(* and leaves uploadedPoints holding whatever its objects have become.     *)
(***************************************************************************)

(* { ...p, uploadedZth: p.Zth } with the spread left out: the row is p. *)
SpreadObjectShared(i, n) == i

(* { ...p, uploadedZth: p.Zth }, p = uploadedPoints[i], n points: a new    *)
(* object, at an address of its own.                                       *)
SpreadObject(i, n) == n + i

(* new Map(points.map(p => [p.tp, {...p, [label]: p.Zth}])): the heap. *)
HeapAfterMap(points, label) ==
  LET n == Len(points)
  IN [a \in 1..(2 * n) |->
        IF \E i \in 1..n : SpreadObject(i, n) = a
        THEN LET i == CHOOSE i \in 1..n : SpreadObject(i, n) = a
             IN (label :> points[i].Zth) @@ points[i]
        ELSE IF a <= n THEN points[a] ELSE <<>>]

(* pointsMap.get(key): the address of the row of the last point of that    *)
(* tp, 0 when pointsMap.has(key) is false.                                 *)
MapGet(points, key) ==
  LET n == Len(points)
      hits == {i \in 1..n : points[i].tp = key}
  IN IF hits = {} THEN 0
     ELSE SpreadObject(CHOOSE i \in hits : \A j \in hits : j <= i, n)

(* series.forEach(p => { if (pointsMap.has(p.tp))                          *)
(*   pointsMap.get(p.tp)[label2] = p.Zth; else pointsMap.set(...) }).      *)
HeapAfterMerge(points, series, label, label2) ==
  LET heap == HeapAfterMap(points, label)
  IN [a \in DOMAIN heap |->
        LET hits == {j \in 1..Len(series) : MapGet(points, series[j].tp) = a}
        IN IF hits = {} THEN heap[a]
           ELSE LET j == CHOOSE j \in hits : \A k \in hits : k <= j
                IN (label2 :> series[j].Zth) @@ heap[a]]

(* chartData of the merge branch: the values of pointsMap in insertion     *)
(* order (the first place of each time of the dataset, then the times only *)
(* the series has), sorted by tp.                                          *)
ChartRows(points, series, label, label2) ==
  LET heap == HeapAfterMerge(points, series, label, label2)
      FirstPoint(i) == \A j \in 1..(i - 1) : points[j].tp # points[i].tp
      NewKey(j) == /\ MapGet(points, series[j].tp) = 0
                   /\ \A k \in 1..(j - 1) : series[k].tp # series[j].tp
      Last(j) == CHOOSE k \in 1..Len(series) :
                   /\ series[k].tp = series[j].tp
                   /\ \A l \in 1..Len(series) : series[l].tp = series[j].tp => l <= k
      fromPoints == SelectSeq([i \in 1..Len(points) |-> i], FirstPoint)
      fromSeries == SelectSeq([j \in 1..Len(series) |-> j], NewKey)
  IN SortByTp([i \in 1..Len(fromPoints) |-> heap[MapGet(points, points[fromPoints[i]].tp)]]
              \o [j \in 1..Len(fromSeries) |->
                    [tp |-> series[fromSeries[j]].tp] @@
                    (label2 :> series[Last(fromSeries[j])].Zth)])

(* chartData of FitFosterTab, a dataset and a Foster result being held. *)
FitChartData ==
  ChartRows(uploadedPoints[1], fosterResult[1].fitSeries, "uploadedZth", "fittedZth")

(* chartData of PredictSiblingTab, a dataset and a prediction being held. *)
PredictChartData ==
  ChartRows(uploadedPoints[1], predictResult[1].series, "refZth", "predictedZth")

(* uploadedPoints as the render of the mounted tab leaves it. *)
PointsAfterRender ==
  LET points == uploadedPoints[1]
      Kept(heap) == [i \in 1..Len(points) |-> heap[i]]
  IN CASE activeTab = "fit" /\ fosterResult # None ->
            Kept(HeapAfterMerge(points, fosterResult[1].fitSeries,
                                "uploadedZth", "fittedZth"))
       [] activeTab = "predict" /\ predictResult # None ->
            Kept(HeapAfterMerge(points, predictResult[1].series,
                                "refZth", "predictedZth"))
       [] OTHER -> points

Render ==
  /\ uploadedPoints' = IF uploadedPoints = None THEN None
                       ELSE Some(PointsAfterRender)
  /\ UNCHANGED <<fosterResult, cauerResult, predictResult, activeTab, orderN,
                 refArea, newArea, gammaMode, gammaFixed, fileName, uploadError,
                 tabVars, parses, requests, csvVars, coreVars>>

(***************************************************************************)
(* Specifications.                                                         *)
(***************************************************************************)

(* The application as its components drive it. *)
Next ==
  \/ \E f \in Files : handleFileChange(f)
  \/ handleFileChangeNoFile
  \/ \E file \in BagToSet(parses), readOk \in BOOLEAN : ParseSettles(file, readOk)
  \/ \E text \in OrderTexts : setOrderN(text)
  \/ \E tab \in Tabs : setActiveTab(tab)
  \/ ClickFit
  \/ ClickConvert
  \/ ClickPredict
  \/ \E r \in BagToSet(requests) : SettleOk(r)
  \/ \E r \in BagToSet(requests), err \in {TransportFailure, ValidationFailure} :
       SettleFail(r, err)
  \/ Render

Spec == Init /\ [][Next]_vars

(* The same application, with the history of overlapping requests kept. *)
InitAudit ==
  /\ InitUi
  /\ audit = TRUE
  /\ csvData = <<>>
  /\ csvResult = None
  /\ NoCore

SpecAudit == InitAudit /\ [][Next]_vars

(* The prediction workflow, with the prediction inputs of DataProvider set *)
(* by a consumer of the context.                                          *)
NextCtx ==
  \/ \E f \in CtxFiles : handleFileChange(f)
  \/ \E file \in BagToSet(parses), readOk \in BOOLEAN : ParseSettles(file, readOk)
  \/ \E tab \in Tabs : setActiveTab(tab)
  \/ ClickPredict
  \/ \E r \in BagToSet(requests) : SettleOk(r)
  \/ \E r \in BagToSet(requests), err \in {TransportFailure, ValidationFailure} :
       SettleFail(r, err)
  \/ \E text \in RefAreaTexts : setRefArea(text)
  \/ \E text \in NewAreaTexts : setNewArea(text)
  \/ \E mode \in GammaModes : setGammaMode(mode)
  \/ \E text \in GammaFixedTexts : setGammaFixed(text)
  \/ Render

SpecCtx == Init /\ [][NextCtx]_vars

(* The three workflows on one dataset: fit, then convert and predict, the  *)
(* new area set by a consumer of the context.                              *)
NextFoster ==
  \/ handleFileChange(FileThree)
  \/ handleFileChangeNoFile
  \/ \E file \in BagToSet(parses) : ParseSettles(file, TRUE)
  \/ \E tab \in Tabs : setActiveTab(tab)
  \/ ClickFit
  \/ ClickConvert
  \/ ClickPredict
  \/ \E r \in BagToSet(requests) : SettleOk(r)
  \/ \E r \in BagToSet(requests) : SettleFail(r, TransportFailure)
  \/ \E text \in FosterAreaTexts : setNewArea(text)
  \/ Render

SpecFoster == Init /\ [][NextFoster]_vars

(* The numeric core alone: one call, on every generated input. *)
InitCore ==
  /\ InitUi
  /\ audit = FALSE
  /\ csvData = <<>>
  /\ csvResult = None
  /\ coreCall \in {Some(c) : c \in FitCalls \cup PredictCalls}
  /\ coreResult = None

CoreReturns ==
  /\ coreResult = None
  /\ coreResult' = Some(CoreResult(coreCall[1]))
  /\ UNCHANGED <<ctxVars, fileName, uploadError, tabVars, parses, requests,
                 csvVars, coreCall>>

SpecCore == InitCore /\ [][CoreReturns]_vars

(* FileUpload alone, a file selected while the parse of another is still   *)
(* under way.                                                              *)
NextUpload ==
  \/ \E f \in UploadFiles : handleFileChangeUpTo(f, MaxUploads)
  \/ handleFileChangeNoFile
  \/ \E tab \in Tabs : setActiveTab(tab)
  \/ \E file \in BagToSet(parses), readOk \in BOOLEAN : ParseSettles(file, readOk)

SpecUpload == Init /\ [][NextUpload]_vars

(* The three workflows, also on a dataset in which a time comes twice. *)
NextChart ==
  \/ handleFileChange(FileTwice)
  \/ NextFoster

SpecChart == Init /\ [][NextChart]_vars

(* parseCsv alone, on every generated file. *)
InitCsv ==
  /\ InitUi
  /\ audit = FALSE
  /\ \E tc \in TimeColumns, zc \in ZColumns, n \in 0..MaxRows :
       csvData \in CsvInputs(tc, zc, n)
  /\ csvResult = None
  /\ NoCore

ParseCsv ==
  /\ csvResult = None
  /\ csvResult' = Some(parseCsv(csvData))
  /\ UNCHANGED <<ctxVars, fileName, uploadError, tabVars, parses, requests,
                 audit, csvData, coreVars>>

SpecCsv == InitCsv /\ [][ParseCsv]_vars


(* A user who keeps following the documented way to a prediction (upload a *)
(* CSV, open the "Predict Sibling" tab, click "Predict Sibling"), while    *)
(* every promise settles in the end.                                       *)
FairSpec ==
  /\ Init
  /\ [][Next]_vars
  /\ WF_vars(handleFileChange(FileThree))
  /\ WF_vars(\E file \in BagToSet(parses) : ParseSettles(file, TRUE))
  /\ WF_vars(setActiveTab("predict"))
  /\ WF_vars(ClickPredict)
  /\ WF_vars(\E r \in BagToSet(requests) : SettleOk(r))
  /\ WF_vars(\E r \in BagToSet(requests) : SettleFail(r, TransportFailure))

(***************************************************************************)
(* Properties.                                                             *)
(***************************************************************************)
InFlight(kind) == {r \in BagToSet(requests) : r.kind = kind}

(* The requests a step adds to those in flight. *)
Issued(kind) ==
  IF BagCardinality(requests') > BagCardinality(requests)
  THEN {r \in BagToSet(requests') :
          r.kind = kind /\ CopiesIn(r, requests') > CopiesIn(r, requests)}
  ELSE {}

IsNumber(v) == v.k \in {"num", "inf"}

NoData == uploadedPoints = None \/ Len(uploadedPoints[1]) < 3

(* C1: a fit_foster request carries at least 3 points, and a run of        *)
(* handleFit on no dataset or on fewer than 3 points sends nothing, shows  *)
(* the local error and leaves fosterResult as it was.                      *)
C1_FitNeedsThreePoints ==
  /\ [](\A r \in InFlight("fit") : Len(r.body.points) >= 3)
  /\ [][(handleFit /\ NoData) =>
          /\ requests' = requests
          /\ localError' = Some(FitShortMsg)
          /\ fosterResult' = fosterResult]_vars

(* handleFit has refused a dataset of one or two points. *)
C1_Witness ==
  /\ uploadedPoints # None
  /\ Len(uploadedPoints[1]) < 3
  /\ localError = Some(FitShortMsg)
  /\ requests = EmptyBag

C3_PredictIssued == <>(InFlight("predict") # {})

(* What holds instead under Spec: no predict request is ever in flight.    *)
PredictNeverIssued == InFlight("predict") = {}

(* C4: every predict request carries the scalingSpec held in state: the    *)
(* gamma mode and, for the fixed mode, gammaFixed.                         *)
C4_ScalingSpecSent ==
  \A r \in InFlight("predict") :
    /\ "scalingSpec" \in DOMAIN r.body
    /\ r.body.scalingSpec.mode \in {"fixed", "blended"}

(* C5: the N of every fit_foster request is an integer from 1 to 10.       *)
C5_OrderInRange ==
  \A r \in InFlight("fit") :
    IsInteger(r.body.N) /\ r.body.N.m >= 1 /\ r.body.N.m <= 10

(* C6: fosterResult takes a value only from a fit_foster response; a       *)
(* foster_to_cauer request is issued only with a stored Foster result and  *)
(* carries exactly its R, C and fitSeries; with no Foster result           *)
(* handleConvert sends nothing and shows its message.                      *)
C6_ConvertAfterFit ==
  /\ [][(fosterResult' # fosterResult /\ fosterResult' # None) =>
          \E r \in InFlight("fit") :
            /\ fosterResult' = Some(FitResponse(r.body))
            /\ BagCardinality(requests') = BagCardinality(requests) - 1]_vars
  /\ [][\A r \in Issued("cauer") :
          /\ fosterResult # None
          /\ r.body = [R      |-> fosterResult[1].R,
                       C      |-> fosterResult[1].C,
                       series |-> fosterResult[1].fitSeries]]_vars
  /\ [][(handleConvert /\ fosterResult = None) =>
          /\ requests' = requests
          /\ localError' = Some(ConvertFirstMsg)]_vars

(* A foster_to_cauer request is in flight. *)
C6_Witness == InFlight("cauer") # {}

(* C7: when a request is rejected, the hook error and the tab's local      *)
(* error hold the error text, loading is false and the stored results are  *)
(* what they were.                                                         *)
C7_FailureSurfaced ==
  [][\A r \in BagToSet(requests), err \in {TransportFailure, ValidationFailure} :
       SettleFail(r, err) =>
         /\ error' = Some(errorMsg(err))
         /\ localError' = Some(errorMsg(err))
         /\ loading' = FALSE
         /\ UNCHANGED <<fosterResult, cauerResult, predictResult>>]_vars

(* C8: the completion of a request never replaces an outcome stored by a   *)
(* request that was in flight together with it.                            *)
C8_CompletionsIndependent ==
  [][\A r \in BagToSet(requests) :
       (SettleOk(r) /\ r.rival) =>
         UNCHANGED <<fosterResult, cauerResult, predictResult>>]_vars

(* C9: every point parseCsv resolves with has a time that is a number,     *)
(* not NaN, and strictly positive, and a Zth that is a number, not NaN.    *)
C9_PointsPositiveNumeric ==
  (csvResult # None /\ csvResult[1].ok) =>
    \A i \in 1..Len(csvResult[1].points) :
      LET p == csvResult[1].points[i]
      IN IsNumber(p.tp) /\ Gt0(p.tp) /\ IsNumber(p.Zth)

(* The cells of a row of a generated file. *)
TimeCell(row) == row[CHOOSE c \in DOMAIN row : c \in TimeColumns]

ZthCell(row) == row[CHOOSE c \in DOMAIN row : c \in ZColumns]

(* A time cell that is no positive number. *)
BadTime(row) == ~(TimeCell(row).k = "num" /\ TimeCell(row).m > 0)

(* parseCsv has resolved on a file with a row of non-positive or           *)
(* non-numeric time.                                                       *)
C9_Witness ==
  /\ csvResult # None
  /\ csvResult[1].ok
  /\ \E i \in 1..Len(csvData) : BadTime(csvData[i])
  /\ Len(csvResult[1].points) < Len(csvData)

TimeNames == {"tp", "t", "time", "Time", "TP", "T"}

ZthNames == {"Zth", "Z", "ZTH", "z"}

Recognised(row) == DOMAIN row \cap TimeNames # {} /\ DOMAIN row \cap ZthNames # {}

(* A row of a numeric time and a numeric, non-zero Zth. *)
PlainRow(row) == TimeCell(row).k = "num" /\ ZthCell(row).k = "num" /\ ZthCell(row).m # 0

ValidRow(row) == PlainRow(row) /\ TimeCell(row).m > 0

(* C10: on a file with recognised columns whose rows differ from valid     *)
(* rows only by a zero or negative time, and with at least one valid row,  *)
(* parseCsv resolves with as many points as there are valid rows.          *)
C10_NonPositiveTimeDropped ==
  (/\ csvResult # None
   /\ \A i \in 1..Len(csvData) : Recognised(csvData[i]) /\ PlainRow(csvData[i])
   /\ \E i \in 1..Len(csvData) : ValidRow(csvData[i]))
  => /\ csvResult[1].ok
     /\ Len(csvResult[1].points) = Cardinality({i \in 1..Len(csvData) : ValidRow(csvData[i])})

(* C11: whenever a file has a row of positive time and Zth = 0, and every  *)
(* row of it has recognised columns and numeric cells, parseCsv resolves   *)
(* and the resolved list holds the point {tp, Zth: 0} of that row.         *)
C11_ZeroZthKept ==
  (/\ csvResult # None
   /\ \E i \in 1..Len(csvData) : ZthCell(csvData[i]) = Num(0)
   /\ \A i \in 1..Len(csvData) :
        /\ Recognised(csvData[i])
        /\ TimeCell(csvData[i]).k = "num" /\ TimeCell(csvData[i]).m > 0
        /\ ZthCell(csvData[i]).k = "num")
  => /\ csvResult[1].ok
     /\ \A i \in 1..Len(csvData) :
          ZthCell(csvData[i]) = Num(0) =>
            \E j \in 1..Len(csvResult[1].points) :
              csvResult[1].points[j] = [tp |-> TimeCell(csvData[i]), Zth |-> Num(0)]
(* The point lists handed on: what parseCsv resolved with, what is stored  *)
(* in uploadedPoints, what a fit_foster or predict request carries.        *)
DeliveredLists ==
  (IF csvResult # None /\ csvResult[1].ok THEN {csvResult[1].points} ELSE {})
  \cup (IF uploadedPoints # None THEN {uploadedPoints[1]} ELSE {})
  \cup {r.body.points : r \in InFlight("fit") \cup InFlight("predict")}

FinitePoint(p) == p.tp.k = "num" /\ p.Zth.k = "num" /\ p.Zth.m >= 0

(* C12: every point handed on has a finite time and a finite,              *)
(* non-negative Zth.                                                       *)
C12_FiniteNonNegative ==
  \A ps \in DeliveredLists : \A i \in 1..Len(ps) : FinitePoint(ps[i])
(* The elements of a sequence, with their multiplicities. *)
BagOfSeq(s) ==
  [x \in {s[i] : i \in 1..Len(s)} |-> Cardinality({i \in 1..Len(s) : s[i] = x})]

(* The points of the rows of csvData that pass the filter, in file order. *)
FilteredRows == FilterPoints([i \in 1..Len(csvData) |-> RowPoint(csvData[i])])

(* C13: the list parseCsv resolves with is ascending by time, tp[i] <=     *)
(* tp[i+1], and is a permutation of the points that passed the filter.     *)
C13_SortedByTime ==
  (csvResult # None /\ csvResult[1].ok) =>
    LET ps == csvResult[1].points
    IN /\ \A i \in 1..(Len(ps) - 1) : ~Less(ps[i + 1].tp, ps[i].tp)
       /\ BagOfSeq(ps) = BagOfSeq(FilteredRows)

(* parseCsv has resolved with two points on a file whose rows come in      *)
(* descending order of time.                                               *)
C13_Witness ==
  /\ csvResult # None
  /\ csvResult[1].ok
  /\ Len(csvResult[1].points) = 2
  /\ Len(csvData) = 2
  /\ Less(Number(TimeCell(csvData[2])), Number(TimeCell(csvData[1])))
(* C14: in every point list handed on the times are strictly increasing:   *)
(* no two points have the same tp.                                         *)
C14_TimesStrictlyIncreasing ==
  \A ps \in DeliveredLists :
    \A i \in 1..(Len(ps) - 1) : Less(ps[i].tp, ps[i + 1].tp)
(* The upper/lower-case spellings of tp, t and of Zth, Z. *)
TimeSpellings == {"tp", "Tp", "tP", "TP", "t", "T"}

ZthSpellings ==
  {"zth", "Zth", "zTh", "ztH", "ZTh", "ZtH", "zTH", "ZTH", "z", "Z"}

(* C15: a file whose time header is a spelling of tp or t, whose impedance *)
(* header is a spelling of Zth or Z, and whose rows are all valid is       *)
(* accepted, and every row of it is parsed.                                *)
C15_HeadersCaseInsensitive ==
  (/\ csvResult # None
   /\ Len(csvData) > 0
   /\ \A i \in 1..Len(csvData) :
        /\ DOMAIN csvData[i] \cap TimeSpellings # {}
        /\ DOMAIN csvData[i] \cap ZthSpellings # {}
        /\ ValidRow(csvData[i]))
  => /\ csvResult[1].ok
     /\ Len(csvResult[1].points) = Len(csvData)
(* C16: uploadedPoints, the list and every point in it, changes only when  *)
(* the parse of a selected file settles; requests, completions, tab        *)
(* switches and renders leave it as it is.                                 *)
C16_DatasetNeverMutated ==
  [][uploadedPoints' # uploadedPoints =>
       \E file \in BagToSet(parses) : parses' = parses (-) SetToBag({file})]_vars

(* The fit tab is mounted with a dataset and a Foster result: its render   *)
(* merges the fitted curve into the chart rows.                            *)
C16_Witness ==
  /\ activeTab = "fit"
  /\ uploadedPoints # None
  /\ fosterResult # None
  /\ fosterResult[1].fitSeries # <<>>
(* C17: fosterResult changes only when a fit response arrives or a file is *)
(* selected; issuing, completing or failing a convert or predict request   *)
(* leaves it as it is, and their results go to cauerResult and             *)
(* predictResult.                                                          *)
C17_FosterResultOnlyByFit ==
  [][/\ fosterResult' # fosterResult =>
          \/ \E r \in InFlight("fit") : SettleOk(r)
          \/ fosterResult' = None /\ BagCardinality(parses') > BagCardinality(parses)
     /\ \A r \in InFlight("cauer") :
          SettleOk(r) => cauerResult' = Some(CauerResponse(r.body))
     /\ \A r \in InFlight("predict") :
          SettleOk(r) => predictResult' = Some(PredictResponse(r.body))]_vars

(* A conversion and a prediction have both been answered while the Foster  *)
(* result of the fit is held.                                              *)
C17_Witness ==
  fosterResult # None /\ cauerResult # None /\ predictResult # None
(* C18: on a valid dataset and an order N in 1..10, whatever iterate the   *)
(* solver stopped at, fit returns R, C and tau of exactly N stages, every  *)
(* R and every C finite and strictly positive.                             *)
C18_FitReturnsNPositiveStages ==
  (coreResult # None /\ coreCall[1].op = "fit" /\ ValidFit(coreCall[1].body)) =>
    /\ coreResult[1].ok
    /\ LET data == coreResult[1].data
           N == coreCall[1].body.N.m
       IN /\ Len(data.R) = N /\ Len(data.C) = N /\ Len(data.tau) = N
          /\ \A i \in 1..N :
               /\ data.R[i].k = "num" /\ Gt0(data.R[i])
               /\ data.C[i].k = "num" /\ Gt0(data.C[i])

(* A fit of order 10 has returned stages that had to be clipped. *)
C18_Witness ==
  /\ coreResult # None /\ coreCall[1].op = "fit"
  /\ coreResult[1].ok
  /\ coreCall[1].body.N = Num(10)
  /\ coreResult[1].data.warning = Some(ClippedMsg)
  /\ \E i \in 1..10 : coreResult[1].data.R[i] = Epsilon
(* C19: predict with Anew = Aref returns scale = 1 and, on a dataset the   *)
(* fitter takes, the series of the reference fit, in the fixed and in the  *)
(* blended mode.                                                           *)
C19_SameAreaSameSeries ==
  (/\ coreResult # None /\ coreCall[1].op = "predict"
   /\ ValidPredict(coreCall[1].body)
   /\ coreCall[1].body.Anew = coreCall[1].body.Aref)
  => /\ coreResult[1].ok
     /\ coreResult[1].data.scale = Num(1)
     /\ LET call == coreCall[1]
            reference == FitResult([points |-> call.body.points,
                                    N |-> Num(Len(call.iterate))], call.iterate)
        IN Len(call.body.points) >= 3 =>
             coreResult[1].data.series = reference.fitSeries

(* A blended prediction for the reference area 4 has returned, from a fit  *)
(* whose stages lie below, at and above the diffusion time.                *)
C19_Witness ==
  /\ coreResult # None /\ coreCall[1].op = "predict"
  /\ coreResult[1].ok
  /\ coreCall[1].body.Aref = Num(4) /\ coreCall[1].body.Anew = Num(4)
  /\ coreCall[1].scalingSpec.mode = "blended"
  /\ Len(coreCall[1].body.points) >= 3
  /\ \A g \in {Num(0), Dec(5, 1), Num(1)} :
       \E i \in 1..Len(coreCall[1].iterate) :
         Gamma(coreCall[1].scalingSpec, FosterNetwork(coreCall[1].iterate)[i].tau) = g
(* C20: a stored Foster or prediction result was computed from the points  *)
(* now in uploadedPoints, which is then not null.                          *)
C20_ResultsOfCurrentDataset ==
  /\ fosterResult # None =>
       /\ uploadedPoints # None
       /\ \E N \in 1..10 :
            fosterResult[1] = FitResponse([points |-> uploadedPoints[1], N |-> Num(N)])
  /\ predictResult # None =>
       /\ uploadedPoints # None
       /\ \E Aref \in {Number(refArea)}, Anew \in {Number(Str(text)) : text \in NewAreaTexts \cup FosterAreaTexts} :
            predictResult[1].series =
              PredictResponse([points |-> uploadedPoints[1],
                               Aref |-> Aref, Anew |-> Anew]).series
(* C21: a stored Cauer result is the answer to the conversion of the       *)
(* Foster result now stored, which is then not null.                       *)
C21_CauerOfStoredFoster ==
  cauerResult # None =>
    /\ fosterResult # None
    /\ cauerResult[1] =
         CauerResponse(fosterToCauerBody(fosterResult[1].R, fosterResult[1].C,
                                         fosterResult[1].fitSeries))
(* C22: once every parse has settled, uploadedPoints and the upload error  *)
(* are an outcome of parsing the file whose name is displayed.             *)
C22_LastSelectedFileWins ==
  (parses = EmptyBag /\ fileName # "") =>
    \E file \in UploadFiles, out \in {parseCsv(f.data) : f \in UploadFiles}
                                    \cup {Rejected(ReadErrorMsg)} :
      /\ file.name = fileName
      /\ out \in {parseCsv(file.data), Rejected(ReadErrorMsg)}
      /\ uploadedPoints = IF out.ok THEN Some(out.points) ELSE None
      /\ uploadError = IF out.ok THEN None ELSE Some(out.msg)
(* C23: a step in which a file is selected (its parse begins) ends with    *)
(* fosterResult, cauerResult and predictResult all null; a cancelled       *)
(* dialog changes nothing.                                                 *)
C23_SelectionClearsResults ==
  [][/\ BagCardinality(parses') > BagCardinality(parses) =>
          fosterResult' = None /\ cauerResult' = None /\ predictResult' = None
     /\ handleFileChangeNoFile =>
          UNCHANGED <<ctxVars, fileName, uploadError, tabVars, parses, requests>>]_vars

(* A file has just been selected over a dataset, a prediction still in     *)
(* flight, and no result is held.                                          *)
C23_Witness ==
  /\ parses # EmptyBag
  /\ uploadedPoints # None
  /\ InFlight("predict") # {}
  /\ fosterResult = None /\ cauerResult = None /\ predictResult = None
(* C24: after a rejected upload (the upload error is shown and no parse is *)
(* under way) the dataset is null, and with no request in flight the three *)
(* results are null as well.                                               *)
C24_FailedUploadLeavesNothing ==
  (uploadError # None /\ parses = EmptyBag) =>
    /\ uploadedPoints = None
    /\ requests = EmptyBag =>
         fosterResult = None /\ cauerResult = None /\ predictResult = None
(* C25: uploadedPoints is null or a list of at least one point, and the    *)
(* upload of a file none of whose rows passes the filter ends with the     *)
(* message of the empty result, not with an empty dataset.                 *)
C25_DatasetNullOrNonEmpty ==
  /\ uploadedPoints # None => Len(uploadedPoints[1]) >= 1
  /\ (parses = EmptyBag /\ uploadError = None /\ fileName # "") =>
       uploadedPoints # None

(* The upload of novalid.csv has been rejected for want of valid rows. *)
C25_Witness ==
  /\ fileName = FileNoValid.name
  /\ parses = EmptyBag
  /\ uploadError = Some(NoValidMsg)
  /\ uploadedPoints = None
(* The number of requests in flight issued by the mounted tab instance. *)
LiveCount ==
  LET live == {r \in BagToSet(requests) : r.live}
      RECURSIVE count(_)
      count(S) == IF S = {} THEN 0
                  ELSE LET r == CHOOSE x \in S : TRUE
                       IN CopiesIn(r, requests) + count(S \ {r})
  IN count(live)

(* C26: loading of the mounted instance is true exactly while a request of *)
(* that instance is in flight, of which there is at most one; a request    *)
(* starts with loading true and error null, and when it settles loading is *)
(* false, with error still null after a success.                           *)
C26_LoadingWhileInFlight ==
  /\ [](LiveCount <= 1 /\ (loading <=> LiveCount = 1))
  /\ [][/\ BagCardinality(requests') > BagCardinality(requests) =>
            loading' /\ error' = None
       /\ \A r \in BagToSet(requests) :
            (r.live /\ requests' = MarkRivals(requests (-) SetToBag({r}), r.kind)) =>
              /\ ~loading'
              /\ SettleOk(r) => error' = None]_vars

(* The mounted instance waits for its request while a request of an        *)
(* instance that was unmounted is still in flight.                         *)
C26_Witness ==
  /\ loading
  /\ \E r \in BagToSet(requests) : r.live
  /\ \E r \in BagToSet(requests) : ~r.live
(* C27: activeTab starts as "fit" and is always one of the three tabs;     *)
(* only the handlers of the tab it names run; and a step that changes it   *)
(* changes nothing else that DataProvider or FileUpload holds.             *)
C27_TabSwitchKeepsResults ==
  /\ activeTab = "fit"
  /\ [](activeTab \in {"fit", "cauer", "predict"})
  /\ [][/\ \A kind \in {"fit", "cauer", "predict"} :
            Issued(kind) # {} => activeTab = kind /\ activeTab' = kind
       /\ activeTab' # activeTab =>
            UNCHANGED <<uploadedPoints, orderN, fosterResult, cauerResult,
                        predictResult, refArea, newArea, gammaMode, gammaFixed,
                        fileName, uploadError, parses>>]_vars

(* The fit tab has been left with a dataset and a Foster result held. *)
C27_Witness ==
  /\ activeTab # "fit"
  /\ uploadedPoints # None
  /\ fosterResult # None
(* The chart rows are the time-keyed merge of points and series. *)
MergedByTime(rows, points, series, label, label2) ==
  LET times == {points[i].tp : i \in 1..Len(points)}
               \cup {series[j].tp : j \in 1..Len(series)}
  IN /\ \A i \in 1..(Len(rows) - 1) : ~Less(rows[i + 1].tp, rows[i].tp)
     /\ {rows[i].tp : i \in 1..Len(rows)} = times
     /\ Len(rows) = Cardinality(times)
     /\ \A i \in 1..Len(points) :
          \E r \in 1..Len(rows) :
            /\ rows[r].tp = points[i].tp
            /\ label \in DOMAIN rows[r] /\ rows[r][label] = points[i].Zth
     /\ \A j \in 1..Len(series) :
          (\E i \in 1..Len(points) : points[i].tp = series[j].tp) =>
            \E r \in 1..Len(rows) :
              /\ rows[r].tp = series[j].tp
              /\ label \in DOMAIN rows[r] /\ label2 \in DOMAIN rows[r]

(* C28: the chart rows of the fit tab and of the predict tab are sorted by *)
(* tp, one per time of dataset or series, every uploaded point's Zth the   *)
(* measured value of its row, a result point of a dataset time in that     *)
(* row.                                                                    *)
C28_ChartRowsMergedByTime ==
  /\ (uploadedPoints # None /\ fosterResult # None) =>
       MergedByTime(FitChartData, uploadedPoints[1], fosterResult[1].fitSeries,
                    "uploadedZth", "fittedZth")
  /\ (uploadedPoints # None /\ predictResult # None) =>
       MergedByTime(PredictChartData, uploadedPoints[1], predictResult[1].series,
                    "refZth", "predictedZth")

====
